---- MODULE Spec2Model ----
(***************************************************************************)
(* softix-cli (src/softixcli/cli.py): a click command group whose          *)
(* subcommands each drive one call of the remote ticketing service.        *)
(*                                                                         *)
(* One invocation of the program is one operating-system process.  It      *)
(* runs in steps that other processes can interleave with:                 *)
(*   Invoke      click parses the command line: type conversion, the       *)
(*               required-option checks and the option callbacks           *)
(*               (file_exists, validate_fee, validate_token_file);         *)
(*   <handler>   the body of the subcommand, in its blocking steps: the    *)
(*               remote call is issued; the answer is handled, with the    *)
(*               output and the exit status; for create-token the file     *)
(*               is opened, and the buffered text is flushed at the close. *)
(* Terminate ends the process, so that a later invocation can start.       *)
(*                                                                         *)
(* The only shared state is the file system (disk).                        *)
(***************************************************************************)
EXTENDS Integers, Sequences, FiniteSets, TLC

\* ------------------------------------------------------------------ bounds
NumProcs == 2
MaxDemands == 2
MaxFees == 2

Procs == 1..NumProcs
FirstProc == CHOOSE p \in Procs : \A q \in Procs : p <= q

\* ------------------------------------------------------------ value domains
None == "None"

Paths == {"tok.json", "new.json"}

\* A text is what a conversion produced from a value: json.dumps(v),
\* json.dumps(v, indent=4), or the value printed as it is.
\* tail: None, or the value of an older, longer text whose end is left
\* behind the text (a file written over without being truncated).
Text(fmt, value) == [fmt |-> fmt, value |-> value, tail |-> None]
EmptyText == Text("empty", None)

\* json.dumps(obj): the compact serialisation of obj.
JsonDumps(v) == Text("json", v)
\* json.dumps(obj, indent=4): the pretty-printed serialisation of obj.
JsonDumpsIndent4(v) == Text("json-indent4", v)
\* click.echo(value) of a value that is not serialised first.
Raw(v) == Text("raw", v)

\* A path of the file system: absent, or a file with a content.
Absent == [exists |-> FALSE, readable |-> FALSE, content |-> EmptyText]
File(readable, content) == [exists |-> TRUE, readable |-> readable, content |-> content]
InitialFiles == {Absent, File(TRUE, JsonDumps("T0")), File(FALSE, JsonDumps("T0"))}
\* The file system at the start: tok.json is in any of these states,
\* new.json is not there until a create-token invocation creates it.
InitialDisks == {d \in [Paths -> InitialFiles] : d["new.json"] = Absent}

\* How a call of the client library ends: it returns a value, it raises
\* SoftixError with the service's message, or it raises another exception
\* (ValueError: the answer of the service was not JSON; OSError: the
\* connection failed).
\* attr: the exception class gives its instances the attribute `message`.
Responses == {"R1", "R2"}
Messages == {"order not found", "invalid token"}
OtherExceptions == {"ValueError", "OSError"}
Ok(v) ==
    [ok |-> TRUE, value |-> v, message |-> None, exc |-> None, attr |-> FALSE]
SoftixError(m, attr) ==
    [ok |-> FALSE, value |-> None, message |-> m, exc |-> "SoftixError",
     attr |-> attr]
Raised(e) ==
    [ok |-> FALSE, value |-> None, message |-> None, exc |-> e, attr |-> FALSE]
Outcomes ==
    {Ok(v) : v \in Responses}
        \cup {SoftixError(m, at) : m \in Messages, at \in BOOLEAN}
        \cup {Raised(e) : e \in OtherExceptions}
NoReply ==
    [ok |-> FALSE, value |-> None, message |-> None, exc |-> None,
     attr |-> FALSE]

\* Command-line material.
DemandTuples == {<<"GA", "2", "2">>, <<"CH", "1", "0">>}
\* Fee tuples as written on the command line: one in normal form, one whose
\* type is well formed but not in normal form, one with an empty type, one
\* with an empty code, one with a malformed type.
FeeTuples ==
    {<<"SVC", "F1">>, <<" del", "F2">>, <<"", "F1">>, <<"SVC", "">>,
     <<"?", "F1">>}
DataInputs == {"{bad", "[1]", "{\"name\": \"A\"}"}
PerformanceCodes == {"PERF1"}
Sections == {"S1"}
CustomerIds == {"C1"}
Ids == {"B1"}

SeqsUpTo(S, n) == UNION {[1..k -> S] : k \in 0..n}

Commands ==
    {"create-customer", "add-offer", "create-basket", "create-token",
     "delete-customer", "get-performance-availabilities",
     "get-performance-prices", "get-basket", "get-customer", "get-order",
     "purchase-basket", "reverse-order"}

BasketCommands == {"add-offer", "create-basket"}
PerformanceCommands ==
    {"get-performance-availabilities", "get-performance-prices"}

\* The values of a subcommand's parameters; None: the parameter is not on
\* the command line.  id is the positional identifier (basket-id,
\* customer-id or order-id).
NoParams ==
    [data |-> None, id |-> None, performance_code |-> None, section |-> None,
     demand |-> <<>>, fee |-> <<>>, customer_id |-> None, token |-> None,
     dest |-> None]

\* The positional parameters (click.argument).
Arguments == {"basket-id", "customer-id", "order-id", "performance-code"}

\* The options declared with a callback.
WithCallback == {"--fee", "--token-json", "--file"}

\* The parameter has a value on the command line.
Given(a, o) ==
    CASE o \in {"basket-id", "customer-id", "order-id"} -> a.id # None
      [] o = "performance-code" -> a.performance_code # None
      [] o = "--data" -> a.data # None
      [] o = "--section" -> a.section # None
      [] o = "--demand" -> a.demand # <<>>
      [] o = "--fee" -> a.fee # <<>>
      [] o = "--customer-id" -> a.customer_id # None
      [] o = "--token-json" -> a.token # None
      [] o = "--file" -> a.dest # None

\* The orders in which the options of S can be written.
Orders(S) ==
    {s \in [1..Cardinality(S) -> S] :
        \A i, j \in 1..Cardinality(S) : s[i] = s[j] => i = j}

TokenArgs == {None} \cup Paths

\* The tuples tried for --demand and --fee: up to MaxDemands and MaxFees of
\* them on a command line that has its arguments and --section, at most one
\* of each on a command line that lacks one of these.
TuplesTried(x) ==
    \/ x.performance_code # None /\ x.section # None
    \/ Len(x.demand) <= 1 /\ Len(x.fee) <= 1

\* The parameter values tried for each subcommand: the value of every
\* parameter that the subcommand declares.  Arguments are positional: the
\* second one (add-offer) has a value only if the first one has.
OptionValues(c) ==
    CASE c = "create-customer" ->
           {[NoParams EXCEPT !.data = d, !.token = t] :
                d \in {None} \cup DataInputs, t \in TokenArgs}
      [] c = "add-offer" ->
           {x \in {[NoParams EXCEPT !.id = i, !.performance_code = pc0,
                                    !.section = se, !.demand = dm,
                                    !.fee = fe, !.token = t] :
                     i \in {None} \cup Ids,
                     pc0 \in {None} \cup PerformanceCodes,
                     se \in {None} \cup Sections,
                     dm \in SeqsUpTo(DemandTuples, MaxDemands),
                     fe \in SeqsUpTo(FeeTuples, MaxFees),
                     t \in TokenArgs} :
              /\ x.performance_code # None => x.id # None
              /\ TuplesTried(x)}
      [] c = "create-basket" ->
           {x \in {[NoParams EXCEPT !.performance_code = pc0, !.section = se,
                                    !.demand = dm, !.fee = fe,
                                    !.customer_id = cu, !.token = t] :
                     pc0 \in {None} \cup PerformanceCodes,
                     se \in {None} \cup Sections,
                     dm \in SeqsUpTo(DemandTuples, MaxDemands),
                     fe \in SeqsUpTo(FeeTuples, MaxFees),
                     cu \in {None} \cup CustomerIds,
                     t \in TokenArgs} :
              TuplesTried(x)}
      [] c = "create-token" ->
           {[NoParams EXCEPT !.dest = f] : f \in {None} \cup Paths}
      [] c = "delete-customer" -> {NoParams}
      [] c \in PerformanceCommands ->
           {[NoParams EXCEPT !.performance_code = pc0, !.token = t] :
                pc0 \in {None} \cup PerformanceCodes, t \in TokenArgs}
      [] c = "purchase-basket" ->
           {[NoParams EXCEPT !.id = i, !.customer_id = cu, !.token = t] :
                i \in {None} \cup Ids, cu \in {None} \cup CustomerIds,
                t \in TokenArgs}
      [] OTHER ->
           {[NoParams EXCEPT !.id = i, !.token = t] :
                i \in {None} \cup Ids, t \in TokenArgs}

\* -------------------------------------------------------------------- state
VARIABLES
    disk,      \* the file system: path -> Absent or a file
    python2,   \* the interpreter: TRUE if str is a byte string (Python 2)
    pc,        \* per process: "idle", "parsed" (handler entered), "called"
               \* (remote call in flight), "written" (text buffered), "exit"
    cmd,       \* per process: the subcommand invoked
    argv,      \* per process: the option values given on the command line
    params,    \* per process: the parameters click hands to the handler
    calls,     \* per process: the remote calls issued, in order
    reply,     \* per process: the answer of the last remote call
    stdout,    \* per process: what was printed to standard output
    stderr,    \* per process: what was printed to standard error
    status     \* per process: the exit status, set when pc becomes "exit"

vars == <<disk, python2, pc, cmd, argv, params, calls, reply, stdout, stderr, status>>

Init ==
    /\ disk \in InitialDisks
    /\ python2 \in BOOLEAN
    /\ pc = [p \in Procs |-> "idle"]
    /\ cmd = [p \in Procs |-> None]
    /\ argv = [p \in Procs |-> NoParams]
    /\ params = [p \in Procs |-> NoParams]
    /\ calls = [p \in Procs |-> <<>>]
    /\ reply = [p \in Procs |-> NoReply]
    /\ stdout = [p \in Procs |-> <<>>]
    /\ stderr = [p \in Procs |-> <<>>]
    /\ status = [p \in Procs |-> 0]

\* ------------------------------------------------------- click: parsing
\* The outcome of an option callback: the value it returns, or the
\* click.BadParameter it raises.
Returned(v) == [raised |-> FALSE, value |-> v]
BadParameter(v) == [raised |-> TRUE, value |-> v]

\* Mutant of file_exists: the destination is returned though it exists.
file_exists_no_check(d, value) == Returned(value)

\* file_exists(context, param, value): the callback of create-token's --file.
\* value is click's lazily opened file (mode 'wb': nothing is opened before
\* the first write); value.name is its path.
file_exists(d, value) ==
    IF value = None THEN Returned(None)
    ELSE IF d[value].exists THEN BadParameter(value)
    ELSE Returned(value)

\* A field of a fee that is malformed, and the normal form of a field that
\* is well formed.  Which spellings are malformed and which are normal is
\* decided in validations.py; the model has one representative of each:
\* "?" is malformed, " del" is the spelling of "DEL" that is not normal, and
\* every other field is its own normal form.
Malformed(x) == x = "?"
NormalForm(x) == IF x = " del" THEN "DEL" ELSE x

\* validate_fee(context, param, value): the callback of --fee.  A fee tuple
\* with a field that is empty or malformed is rejected; otherwise each tuple
\* is normalised to a fee value, type and code in normal form.
validate_fee(value) ==
    IF \E i \in 1..Len(value) : \E k \in 1..2 :
         value[i][k] = "" \/ Malformed(value[i][k])
    THEN BadParameter(value)
    ELSE Returned([i \in 1..Len(value) |->
                     <<NormalForm(value[i][1]), NormalForm(value[i][2])>>])

\* validate_token_file(context, param, value): the callback of --token-json.
\* The token file must exist and be readable.
validate_token_file(d, value) ==
    IF value = None THEN Returned(None)
    ELSE IF d[value].exists /\ d[value].readable THEN Returned(value)
    ELSE BadParameter(value)

\* The subcommands that declare --token-json.
TokenCommands == Commands \ {"create-token", "delete-customer"}

\* The parameters each subcommand declares, in the order of their
\* declaration (click.argument and click.option decorators, top to bottom).
Declared(c) ==
    CASE c = "create-customer" -> <<"--data", "--token-json">>
      [] c = "add-offer" ->
           <<"basket-id", "performance-code", "--section", "--demand",
             "--fee", "--token-json">>
      [] c = "create-basket" ->
           <<"performance-code", "--section", "--demand", "--fee",
             "--customer-id", "--token-json">>
      [] c = "create-token" -> <<"--file">>
      [] c = "delete-customer" -> <<>>
      [] c \in PerformanceCommands -> <<"performance-code", "--token-json">>
      [] c = "get-basket" -> <<"basket-id", "--token-json">>
      [] c = "get-customer" -> <<"customer-id", "--token-json">>
      [] c \in {"get-order", "reverse-order"} -> <<"order-id", "--token-json">>
      [] c = "purchase-basket" ->
           <<"basket-id", "--customer-id", "--token-json">>

\* The set of the parameters the subcommand declares.
ParamSet(c) == {Declared(c)[i] : i \in 1..Len(Declared(c))}

\* Mutant of Required: --token-json is not required.
Required_token_optional(c, o) ==
    o \notin {"--customer-id", "--file", "--token-json"}

\* Mutant of Required: --demand and --fee are not required.
Required_tuples_optional(c, o) ==
    o \notin {"--customer-id", "--file", "--demand", "--fee"}

\* The parameter must have a value: an argument, or an option declared with
\* required=True.
Required(c, o) == o \notin {"--customer-id", "--file"}

\* Lines of standard error.
UsageError(error, detail) ==
    [kind |-> "UsageError", error |-> error, detail |-> detail]
Traceback(exception) ==
    [kind |-> "Traceback", error |-> exception, detail |-> None]

\* The callback of the parameter, applied to its value; a parameter
\* declared without a callback keeps its value.
Callback(a, d, o) ==
    CASE o = "--fee" -> validate_fee(a.fee)
      [] o = "--token-json" -> validate_token_file(d, a.token)
      [] o = "--file" -> file_exists(d, a.dest)
      [] OTHER -> Returned(None)

\* click processes one parameter: a required parameter without a value is a
\* MissingParameter; otherwise the callback runs and may raise BadParameter.
\* The result is the usage error printed, or nothing.
OptionError(c, a, d, o) ==
    IF ~Given(a, o) /\ Required(c, o)
    THEN <<UsageError("MissingParameter", o)>>
    ELSE IF Callback(a, d, o).raised
    THEN <<UsageError("BadParameter", o)>>
    ELSE <<>>

\* The parameters of c in the order of their declaration, those in S only.
DeclaredIn(c, S) == SelectSeq(Declared(c), LAMBDA o : o \in S)

\* click.core.iter_params_for_processing: first the parameters the parser
\* met, in the order in which it met them: the options on the command
\* line, in the order in which they are written, then the arguments (the
\* parser takes them after the options, with or without a value); then
\* the options that are not on the command line, in the order of their
\* declaration.
Processing(c, a, order) ==
    order \o DeclaredIn(c, Arguments)
          \o DeclaredIn(c, {o \in ParamSet(c) :
                                  o \notin Arguments /\ ~Given(a, o)})

RECURSIVE FirstError(_, _, _, _)
FirstError(c, a, d, opts) ==
    IF opts = <<>> THEN <<>>
    ELSE LET e == OptionError(c, a, d, Head(opts)) IN
           IF e # <<>> THEN e ELSE FirstError(c, a, d, Tail(opts))

\* The usage error that ends the parsing of the command line: the first
\* error in click's processing order; <<>> if there is none.
ParseError(c, a, order, d) == FirstError(c, a, d, Processing(c, a, order))

\* The parameters the handler receives: each parameter's value as its
\* callback returned it.
Handed(c, a, d) ==
    [a EXCEPT !.fee = IF c \in BasketCommands THEN validate_fee(a.fee).value
                      ELSE a.fee,
              !.dest = IF c = "create-token" THEN file_exists(d, a.dest).value
                       ELSE a.dest,
              !.token = IF c \in TokenCommands
                        THEN validate_token_file(d, a.token).value
                        ELSE a.token]

\* cli(): the group callback builds the context, then click parses the
\* subcommand's command line, the options written in the given order.  A
\* usage error is printed to standard error and the process exits with
\* status 2; otherwise the handler is entered.
Start(p, c, a, order) ==
    /\ pc[p] = "idle"
    /\ cmd' = [cmd EXCEPT ![p] = c]
    /\ argv' = [argv EXCEPT ![p] = a]
    /\ LET e == ParseError(c, a, order, disk) IN
         IF e = <<>>
         THEN /\ pc' = [pc EXCEPT ![p] = "parsed"]
              /\ params' = [params EXCEPT ![p] = Handed(c, a, disk)]
              /\ UNCHANGED <<stderr, status>>
         ELSE /\ pc' = [pc EXCEPT ![p] = "exit"]
              /\ UNCHANGED params
              /\ stderr' = [stderr EXCEPT ![p] = e]
              /\ status' = [status EXCEPT ![p] = 2]
    /\ UNCHANGED <<disk, python2, calls, reply, stdout>>

\* The orders tried for the options given in v.  An option without a
\* callback cannot fail once it has a value, so these are written first,
\* in the order of their declaration; the options with a callback follow
\* in every order.
OrdersOf(c, v) ==
    {DeclaredIn(c, {o \in ParamSet(c) :
                          /\ o \notin Arguments
                          /\ o \notin WithCallback
                          /\ Given(v, o)}) \o s :
        s \in Orders({o \in WithCallback \cap ParamSet(c) : Given(v, o)})}

\* An invocation: a subcommand, its parameter values, and the order in which
\* the options are written.
Invoke(p) ==
    /\ pc[p] = "idle"
    /\ \E c \in Commands : \E v \in OptionValues(c) : \E o \in OrdersOf(c, v) :
         Start(p, c, v, o)

InvokeCreateToken(p) ==
    /\ pc[p] = "idle"
    /\ \E v \in OptionValues("create-token") :
         \E o \in OrdersOf("create-token", v) :
           Start(p, "create-token", v, o)

\* ------------------------------------------------------------- the handlers
\* A remote call as the client library receives it: the operation and the
\* arguments taken from the subcommand's command line.
NoCall ==
    [op |-> None, id |-> None, performance_code |-> None, section |-> None,
     demands |-> <<>>, fees |-> <<>>, customer_id |-> None, data |-> None]
Call(op) == [NoCall EXCEPT !.op = op]

\* The handler of p issues a call of the client library and waits for the
\* answer of the service.
Issue(p, call) ==
    /\ pc[p] = "parsed"
    /\ pc' = [pc EXCEPT ![p] = "called"]
    /\ calls' = [calls EXCEPT ![p] = Append(calls[p], call)]
    /\ UNCHANGED <<python2, cmd, argv, params, reply, stdout, stderr, status>>

\* The handler of process p ends: the last answer was rep, it printed out
\* and err and exits with status st.
Finish(p, rep, out, err, st) ==
    /\ pc' = [pc EXCEPT ![p] = "exit"]
    /\ reply' = [reply EXCEPT ![p] = rep]
    /\ stdout' = [stdout EXCEPT ![p] = out]
    /\ stderr' = [stderr EXCEPT ![p] = err]
    /\ status' = [status EXCEPT ![p] = st]
    /\ UNCHANGED <<python2, cmd, argv, params, calls>>

\* An exception that no except clause takes: the interpreter prints the
\* traceback and exits with status 1.
Uncaught(p, rep, exception) ==
    Finish(p, rep, <<>>, <<Traceback(exception)>>, 1)

\* error.message has a value: the class of the exception defines the
\* attribute, or the interpreter is Python 2, where every exception has it.
HasMessage(out) == out.attr \/ python2

\* except softix.exceptions.SoftixError as error:
\*     click.echo(error.message); context.exit(1)
\* Without the attribute, error.message raises AttributeError inside the
\* except clause, and nothing catches it.
EchoMessage(p, out) ==
    IF HasMessage(out)
    THEN Finish(p, out, <<Raw(out.message)>>, <<>>, 1)
    ELSE Uncaught(p, out, "AttributeError")

\* json.loads(data) of create-customer's --data: the payloads that parse, and
\* among them those that parse to a JSON object (a mapping).
JsonParses(data) == data \in {"[1]", "{\"name\": \"A\"}"}
JsonIsObject(data) == data = "{\"name\": \"A\"}"

ParseFailureMessage == "Unable to parse customer data as JSON"

\* create_customer: json.loads(data); a ValueError prints the dedicated
\* message and exits 1 before any call.  A payload that is JSON but no
\* object makes the ** expansion raise TypeError, which nothing catches.
\* The call is inside the same try block: a ValueError it raises is taken
\* by the same except clause; a SoftixError goes to context.fail(
\* error.message), a click usage error with status 2; any other exception
\* is uncaught.
create_customer(p) ==
    /\ cmd[p] = "create-customer"
    /\ \/ /\ pc[p] = "parsed"
          /\ ~JsonParses(params[p].data)
          /\ Finish(p, NoReply, <<Raw(ParseFailureMessage)>>, <<>>, 1)
       \/ /\ pc[p] = "parsed"
          /\ JsonParses(params[p].data) /\ ~JsonIsObject(params[p].data)
          /\ Uncaught(p, NoReply, "TypeError")
       \/ /\ JsonIsObject(params[p].data)
          /\ Issue(p, [Call("create_customer") EXCEPT
                          !.data = params[p].data])
       \/ /\ pc[p] = "called"
          /\ \E out \in Outcomes :
               IF out.ok
               THEN Finish(p, out, <<JsonDumps(out.value)>>, <<>>, 0)
               ELSE IF out.exc = "ValueError"
               THEN Finish(p, out, <<Raw(ParseFailureMessage)>>, <<>>, 1)
               ELSE IF out.exc = "SoftixError"
               THEN IF HasMessage(out)
                    THEN Finish(p, out, <<>>,
                                <<UsageError("UsageError", out.message)>>, 2)
                    ELSE Uncaught(p, out, "AttributeError")
               ELSE Uncaught(p, out, out.exc)
    /\ UNCHANGED disk

\* softix.Demand(*d) and softix.Fee(*f): the tuple's fields by position.
Demand(d) == [price_type_code |-> d[1], quantity |-> d[2], admits |-> d[3]]
Fee(f) == [type |-> f[1], code |-> f[2]]

\* [softix.Demand(*d) for d in demand]
Demands(demand) == [i \in 1..Len(demand) |-> Demand(demand[i])]

\* [softix.Fee(*f) for f in fee]
Fees(fee) == [i \in 1..Len(fee) |-> Fee(fee[i])]

\* The elements of a sequence, last to first.
Reversed(s) == [i \in 1..Len(s) |-> s[Len(s) + 1 - i]]

\* Mutant of add_offer: the demands and the fees are handed to the call last
\* to first.
add_offer_reordered(p) ==
    /\ cmd[p] = "add-offer"
    /\ \/ Issue(p, [Call("add_offer") EXCEPT
                       !.id = params[p].id,
                       !.performance_code = params[p].performance_code,
                       !.section = params[p].section,
                       !.demands = Reversed(Demands(params[p].demand)),
                       !.fees = Reversed(Fees(params[p].fee))])
       \/ /\ pc[p] = "called"
          /\ \E out \in Outcomes :
               IF out.ok
               THEN Finish(p, out, <<JsonDumps(out.value)>>, <<>>, 0)
               ELSE Uncaught(p, out, out.exc)
    /\ UNCHANGED disk

\* add_offer: no try block; an exception of the call, SoftixError included,
\* leaves the handler uncaught.
add_offer(p) ==
    /\ cmd[p] = "add-offer"
    /\ \/ Issue(p, [Call("add_offer") EXCEPT
                       !.id = params[p].id,
                       !.performance_code = params[p].performance_code,
                       !.section = params[p].section,
                       !.demands = Demands(params[p].demand),
                       !.fees = Fees(params[p].fee)])
       \/ /\ pc[p] = "called"
          /\ \E out \in Outcomes :
               IF out.ok
               THEN Finish(p, out, <<JsonDumps(out.value)>>, <<>>, 0)
               ELSE Uncaught(p, out, out.exc)
    /\ UNCHANGED disk

\* create_basket: as add_offer, calling create_basket with the customer id.
create_basket(p) ==
    /\ cmd[p] = "create-basket"
    /\ \/ Issue(p, [Call("create_basket") EXCEPT
                       !.performance_code = params[p].performance_code,
                       !.section = params[p].section,
                       !.demands = Demands(params[p].demand),
                       !.fees = Fees(params[p].fee),
                       !.customer_id = params[p].customer_id])
       \/ /\ pc[p] = "called"
          /\ \E out \in Outcomes :
               IF out.ok
               THEN Finish(p, out, <<JsonDumps(out.value)>>, <<>>, 0)
               ELSE Uncaught(p, out, out.exc)
    /\ UNCHANGED disk

\* The first use of click's lazy file opens the path in mode 'wb': the file
\* is created, or the one there is truncated.
Open(d, dest) ==
    [d EXCEPT ![dest] =
        File(IF d[dest].exists THEN d[dest].readable ELSE TRUE, EmptyText)]

\* The length of a serialised value, as a rank: R1 is the longer answer.
Size(t) ==
    IF t.fmt = "empty" THEN 0
    ELSE LET v == IF t.tail # None THEN t.tail ELSE t.value IN
           IF v = "R1" THEN 2 ELSE 1

\* The buffered text reaches the file when click closes it at the end of
\* the invocation: it is written from offset 0 over what the file holds by
\* then; what an older, longer content has beyond the text stays.
Flush(d, dest, text) ==
    LET old == d[dest].content IN
      [d EXCEPT ![dest].content =
          IF Size(old) <= Size(text) THEN text
          ELSE [text EXCEPT !.tail = IF old.tail # None THEN old.tail
                                     ELSE old.value]]

\* create_token: authenticate; then dest.write(json.dumps(auth_data)) opens
\* dest and, where str is a byte string, buffers the text, which is flushed
\* when the file is closed; where str is not a byte string the write raises
\* TypeError, which nothing catches.  Without dest the token is printed.
create_token(p) ==
    /\ cmd[p] = "create-token"
    /\ LET dest == params[p].dest IN
         \/ /\ Issue(p, Call("authenticate"))
            /\ disk' = disk
         \/ /\ pc[p] = "called"
            /\ \E out \in Outcomes :
                 IF ~out.ok
                 THEN /\ IF out.exc = "SoftixError"
                         THEN EchoMessage(p, out)
                         ELSE Uncaught(p, out, out.exc)
                      /\ disk' = disk
                 ELSE IF dest = None
                 THEN /\ Finish(p, out, <<JsonDumpsIndent4(out.value)>>, <<>>, 0)
                      /\ disk' = disk
                 ELSE /\ disk' = Open(disk, dest)
                      /\ IF python2
                         THEN /\ pc' = [pc EXCEPT ![p] = "written"]
                              /\ reply' = [reply EXCEPT ![p] = out]
                              /\ UNCHANGED <<python2, cmd, argv, params, calls,
                                             stdout, stderr, status>>
                         ELSE Uncaught(p, out, "TypeError")
         \/ /\ pc[p] = "written"
            /\ disk' = Flush(disk, dest, JsonDumps(reply[p].value))
            /\ Finish(p, reply[p], <<>>, <<>>, 0)

\* delete_customer: declared without pass_context, so click calls it with
\* no argument and the call raises TypeError.
delete_customer(p) ==
    /\ cmd[p] = "delete-customer"
    /\ pc[p] = "parsed"
    /\ Uncaught(p, NoReply, "TypeError")
    /\ UNCHANGED disk

\* Mutant of Lookup: a call that failed is issued once more.
Lookup_retry(p, call) ==
    \/ Issue(p, call)
    \/ /\ pc[p] = "called"
       /\ \E out \in Outcomes :
            IF out.ok
            THEN Finish(p, out, <<JsonDumps(out.value)>>, <<>>, 0)
            ELSE IF Len(calls[p]) = 1
            THEN /\ calls' = [calls EXCEPT ![p] = Append(calls[p], call)]
                 /\ UNCHANGED <<python2, pc, cmd, argv, params, reply, stdout,
                                stderr, status>>
            ELSE IF out.exc = "SoftixError"
            THEN EchoMessage(p, out)
            ELSE Uncaught(p, out, out.exc)

\* The body shared by the lookups and purchase_basket: one call; its result
\* is printed as JSON; a SoftixError prints error.message and exits 1; any
\* other exception is uncaught.
Lookup(p, call) ==
    \/ Issue(p, call)
    \/ /\ pc[p] = "called"
       /\ \E out \in Outcomes :
            IF out.ok
            THEN Finish(p, out, <<JsonDumps(out.value)>>, <<>>, 0)
            ELSE IF out.exc = "SoftixError"
            THEN EchoMessage(p, out)
            ELSE Uncaught(p, out, out.exc)

get_performance_availabilities(p) ==
    /\ cmd[p] = "get-performance-availabilities"
    /\ Lookup(p, [Call("performance_availabilities") EXCEPT
                     !.performance_code = params[p].performance_code])
    /\ UNCHANGED disk

get_performance_prices(p) ==
    /\ cmd[p] = "get-performance-prices"
    /\ Lookup(p, [Call("performance_prices") EXCEPT
                     !.performance_code = params[p].performance_code])
    /\ UNCHANGED disk

get_basket(p) ==
    /\ cmd[p] = "get-basket"
    /\ Lookup(p, [Call("basket") EXCEPT !.id = params[p].id])
    /\ UNCHANGED disk

\* The handler of get-customer (named get_basket in the source).
get_customer(p) ==
    /\ cmd[p] = "get-customer"
    /\ Lookup(p, [Call("customer") EXCEPT !.id = params[p].id])
    /\ UNCHANGED disk

\* The handler of get-order (named get_basket in the source).
get_order(p) ==
    /\ cmd[p] = "get-order"
    /\ Lookup(p, [Call("order") EXCEPT !.id = params[p].id])
    /\ UNCHANGED disk

purchase_basket(p) ==
    /\ cmd[p] = "purchase-basket"
    /\ Lookup(p, [Call("purchase_basket") EXCEPT
                     !.id = params[p].id,
                     !.customer_id = params[p].customer_id])
    /\ UNCHANGED disk

\* reverse_order: the refund is printed as it is, not serialised.
reverse_order(p) ==
    /\ cmd[p] = "reverse-order"
    /\ \/ Issue(p, [Call("reverse_order") EXCEPT !.id = params[p].id])
       \/ /\ pc[p] = "called"
          /\ \E out \in Outcomes :
               IF out.ok
               THEN Finish(p, out, <<Raw(out.value)>>, <<>>, 0)
               ELSE IF out.exc = "SoftixError"
               THEN EchoMessage(p, out)
               ELSE Uncaught(p, out, out.exc)
    /\ UNCHANGED disk

\* The process has exited; the next invocation starts from a clean slate.
Terminate(p) ==
    /\ pc[p] = "exit"
    /\ pc' = [pc EXCEPT ![p] = "idle"]
    /\ cmd' = [cmd EXCEPT ![p] = None]
    /\ argv' = [argv EXCEPT ![p] = NoParams]
    /\ params' = [params EXCEPT ![p] = NoParams]
    /\ calls' = [calls EXCEPT ![p] = <<>>]
    /\ reply' = [reply EXCEPT ![p] = NoReply]
    /\ stdout' = [stdout EXCEPT ![p] = <<>>]
    /\ stderr' = [stderr EXCEPT ![p] = <<>>]
    /\ status' = [status EXCEPT ![p] = 0]
    /\ UNCHANGED <<disk, python2>>

\* --------------------------------------------------------- specifications
\* Spec: invocations of any subcommand, one after the other.
Next ==
    \/ Invoke(FirstProc)
    \/ create_customer(FirstProc)
    \/ add_offer(FirstProc)
    \/ create_basket(FirstProc)
    \/ create_token(FirstProc)
    \/ delete_customer(FirstProc)
    \/ get_performance_availabilities(FirstProc)
    \/ get_performance_prices(FirstProc)
    \/ get_basket(FirstProc)
    \/ get_customer(FirstProc)
    \/ get_order(FirstProc)
    \/ purchase_basket(FirstProc)
    \/ reverse_order(FirstProc)
    \/ Terminate(FirstProc)

Spec == Init /\ [][Next]_vars

\* SpecRace: concurrent invocations of create-token.
NextRace ==
    \E p \in Procs :
      \/ InvokeCreateToken(p)
      \/ create_token(p)
      \/ Terminate(p)

SpecRace == Init /\ [][NextRace]_vars

\* ------------------------------------------------------------- properties
Exited(p) == pc[p] = "exit"

\* A step of the create-token handler of p after the answer arrived: the
\* answer is handled, or the buffered text is flushed.
CreateTokenStep(p) ==
    /\ cmd[p] = "create-token"
    /\ pc[p] \in {"called", "written"}
    /\ pc'[p] \in {"written", "exit"}

\* The step in which the create-token handler of p opens its destination.
OpenStep(p) ==
    /\ cmd[p] = "create-token"
    /\ pc[p] = "called"
    /\ pc'[p] \in {"written", "exit"}
    /\ params[p].dest # None
    /\ reply'[p].ok

\* The parse step of p: the step took p from "idle" to another position.
ParseStep(p) == pc[p] = "idle" /\ pc'[p] # "idle"

RemoteFailed(p) == calls[p] # <<>> /\ reply[p].exc = "SoftixError"
RemoteSucceeded(p) == calls[p] # <<>> /\ reply[p].ok

HasEmptyField(fee) == \E i \in 1..Len(fee) : fee[i][1] = "" \/ fee[i][2] = ""

\* C1: for every subcommand that calls the remote service, a call that fails
\* with a service error (one whose message can be read) makes the invocation
\* print the service's message and exit with status 1.
C1_RemoteErrorPrintsMessageExit1 ==
    \A p \in Procs :
      (Exited(p) /\ RemoteFailed(p) /\ HasMessage(reply[p]))
        => (stdout[p] = <<Raw(reply[p].message)>> /\ status[p] = 1)

\* C2: create-token invoked with a destination that exists fails with the
\* destination-collision usage error, calls nothing and leaves the file
\* system as it was; the invocation is over at once.
C2_DestinationCollision ==
    [][\A p \in Procs :
         (/\ ParseStep(p)
          /\ cmd'[p] = "create-token"
          /\ argv'[p].dest # None
          /\ disk[argv'[p].dest].exists)
           => (/\ pc'[p] = "exit"
               /\ status'[p] = 2
               /\ stderr'[p] = <<UsageError("BadParameter", "--file")>>
               /\ stdout'[p] = <<>>
               /\ calls'[p] = <<>>
               /\ disk' = disk)]_vars

C2_Witness ==
    \E p \in Procs :
      /\ Exited(p)
      /\ cmd[p] = "create-token"
      /\ argv[p].dest # None
      /\ disk[argv[p].dest] = File(TRUE, JsonDumps("T0"))
      /\ status[p] = 2
      /\ calls[p] = <<>>

\* C3: the token file is created exclusively: under any interleaving of
\* create-token invocations, an invocation opens its destination only if the
\* path does not exist, and a file that holds a text is never changed.
C3_ExistingFileNeverOverwritten ==
    [][/\ \A p \in Procs : OpenStep(p) => ~disk[params[p].dest].exists
       /\ \A f \in Paths :
            (disk[f].exists /\ disk[f].content # EmptyText)
              => disk'[f] = disk[f]]_vars

\* C4: for every subcommand other than create-token, an invocation whose
\* token file is not given, does not exist or is unreadable, or (create-basket
\* and add-offer) whose fees hold an empty type or code, makes no remote call
\* and ends with a non-zero status.
BadLocalInput(p) ==
    /\ pc[p] # "idle"
    /\ cmd[p] # "create-token"
    /\ \/ argv[p].token = None
       \/ ~disk[argv[p].token].exists
       \/ ~disk[argv[p].token].readable
       \/ cmd[p] \in BasketCommands /\ HasEmptyField(argv[p].fee)

C4_ValidationPrecedesNetwork ==
    \A p \in Procs :
      BadLocalInput(p) => (calls[p] = <<>> /\ (Exited(p) => status[p] # 0))

C4_Witness ==
    \E p \in Procs :
      /\ Exited(p)
      /\ cmd[p] = "create-basket"
      /\ argv[p].demand # <<>>
      /\ HasEmptyField(argv[p].fee)
      /\ argv[p].token # None
      /\ disk[argv[p].token].exists /\ disk[argv[p].token].readable
      /\ stderr[p] = <<UsageError("BadParameter", "--fee")>>
      /\ status[p] = 2
      /\ calls[p] = <<>>

\* C5: when authenticate succeeds, create-token exits with status 0 and the
\* token goes to one sink: with a destination the new file holds the JSON of
\* the response and nothing is printed; without one the token is printed and
\* the file system is unchanged.
C5_TokenToExactlyOneSink ==
    /\ [](\A p \in Procs :
            (Exited(p) /\ cmd[p] = "create-token" /\ reply[p].ok)
              => /\ status[p] = 0
                 /\ IF params[p].dest # None
                    THEN /\ disk[params[p].dest] =
                              File(TRUE, JsonDumps(reply[p].value))
                         /\ stdout[p] = <<>>
                    ELSE stdout[p] = <<JsonDumpsIndent4(reply[p].value)>>)
    /\ [][\A p \in Procs :
            (CreateTokenStep(p) /\ params[p].dest = None) => disk' = disk]_vars

\* C6: a create-customer handler given a payload that is not JSON prints the
\* dedicated message, exits 1 and calls nothing; and the dedicated message is
\* printed by no invocation that issued a remote call.
PrintsParseFailure(p) ==
    \E i \in 1..Len(stdout[p]) : stdout[p][i] = Raw(ParseFailureMessage)

C6_ParseFailureDistinct ==
    \A p \in Procs :
      /\ (Exited(p) /\ cmd[p] = "create-customer" /\ status[p] # 2
            /\ ~JsonParses(argv[p].data))
           => (/\ stdout[p] = <<Raw(ParseFailureMessage)>>
               /\ status[p] = 1
               /\ calls[p] = <<>>)
      /\ PrintsParseFailure(p)
           => (/\ cmd[p] = "create-customer"
               /\ ~JsonParses(argv[p].data)
               /\ calls[p] = <<>>)

C8_BasketCallsNonEmpty ==
    \A p \in Procs :
      /\ \A i \in 1..Len(calls[p]) :
           calls[p][i].op \in {"create_basket", "add_offer"}
             => /\ calls[p][i].performance_code \in PerformanceCodes
                /\ Len(calls[p][i].demands) >= 1
                /\ Len(calls[p][i].fees) >= 1
      /\ (pc[p] # "idle" /\ cmd[p] \in BasketCommands
            /\ (argv[p].demand = <<>> \/ argv[p].fee = <<>>))
           => (Exited(p) /\ status[p] = 2 /\ calls[p] = <<>>)

C8_Witness ==
    \E p \in Procs :
      /\ Exited(p)
      /\ cmd[p] = "create-basket"
      /\ Len(calls[p]) = 1
      /\ calls[p][1].op = "create_basket"
      /\ Len(calls[p][1].demands) = 1
      /\ Len(calls[p][1].fees) = 1

\* C9: an invocation issues at most one remote call; after a failed call it
\* ends with that one call, and a purchase-basket or reverse-order that
\* succeeds has issued exactly one.
C9_NoRetry ==
    \A p \in Procs :
      /\ Len(calls[p]) <= 1
      /\ (Exited(p) /\ reply[p].exc # None) => Len(calls[p]) = 1
      /\ (Exited(p) /\ cmd[p] \in {"purchase-basket", "reverse-order"}
            /\ status[p] = 0)
           => Len(calls[p]) = 1

C9_Witness ==
    \E p \in Procs :
      /\ Exited(p)
      /\ cmd[p] = "purchase-basket"
      /\ RemoteFailed(p)
      /\ status[p] = 1
      /\ Len(calls[p]) = 1

\* C10: the file system changes only in the steps of a create-token
\* invocation with a destination whose authenticate call succeeded and that
\* ends successfully (status 0), and then only at the destination; every
\* other step leaves every file as it was.
C10_OnlySuccessfulCreateTokenWrites ==
    [][disk' # disk
         => \E p \in Procs :
              /\ CreateTokenStep(p)
              /\ params[p].dest # None
              /\ reply'[p].ok
              /\ pc'[p] = "exit" => status'[p] = 0
              /\ \A f \in Paths \ {params[p].dest} : disk'[f] = disk[f]]_vars

====
